---- MODULE Spec2Model ----
(***************************************************************************)
(* Model of fermats_near_miss.py: the bracketing function                  *)
(* calculate_z_value, the miss evaluator calculate_miss and the search     *)
(* loop of find_near_misses.                                               *)
(*                                                                         *)
(* Numbers.  Python integers are unbounded; the model keeps x, y and n     *)
(* small enough for every power to stay an exact integer.                  *)
(*                                                                         *)
(* The n-th root.  `sum_value ** (1/n)` is a double: the exponent 1/n is   *)
(* rounded, sum_value is rounded to 53 bits and pow rounds again, so       *)
(* int(z_float) is the exact integer root plus a small error whose size    *)
(* and sign depend on n and on the magnitude of the sum.  Values measured  *)
(* on the source:                                                          *)
(*     int(1000 ** (1/3))                 = 9        (root 10,  error -1)  *)
(*     int((10**9 + 423**9) ** (1/9))     = 422      (root 423, error -1)  *)
(*     int(((10**15)**5) ** (1/5))        = 10**15+1 (error +1)            *)
(*     x = 497331925265147, y = 865584422359340, n = 5:     error +2       *)
(* The model writes the estimate as IRoot(sum, n) + e, where e is the      *)
(* rounding error of that evaluation, drawn from EstErr.  At most          *)
(* MaxInexact evaluations of one search run are inexact.                   *)
(*                                                                         *)
(* Relative miss.  `miss / sum_value` is a double; the model keeps the     *)
(* quotient as a fraction in lowest terms.  Two different quotients of the *)
(* model's magnitudes (sum < 2^26) are different doubles in the same       *)
(* order, so `<` on the fractions is `<` on the doubles.                   *)
(***************************************************************************)
EXTENDS Integers, Sequences, FiniteSets, TLC

VARIABLES
    pc,                    \* "NotStarted" | "Running" | "Complete"
    n,                     \* the exponent given to find_near_misses
    k,                     \* the upper limit given to find_near_misses
    x,                     \* outer loop variable
    y,                     \* inner loop variable
    combinations_checked,
    best_relative_miss,
    best_result,
    printed,               \* the "New best result found!" blocks printed
    history,               \* every candidate evaluated so far, in order
    inexact,               \* number of inexact root estimates so far
    call,                  \* arguments of a direct call of calculate_z_value
    ret                    \* its return value

vars == <<pc, n, k, x, y, combinations_checked, best_relative_miss,
          best_result, printed, history, inexact, call, ret>>

---------------------------------------------------------------------------
(* Bounds of the model *)

MaxN == 4          \* exponents 3..MaxN
MaxK == 11         \* limits 10..MaxK
MaxUnder == 1      \* the root estimate is at most this far below the root
MaxOver == 2       \* ... and at most this far above it
MaxInexact == 2    \* inexact estimates in one search run
MinRoot == 3       \* direct calls: sum = r^n + d, r in MinRoot..MaxRoot
MaxRoot == 12
MaxOffset == 2     \* ... d in 0..MaxOffset

(* Program constants *)

MinN == 3          \* 2 < n < 12
MinXY == 10        \* range(10, k + 1)

None == <<>>
Inf == <<1, 0>>    \* float('inf')

EstErr == (0 - MaxUnder)..MaxOver

---------------------------------------------------------------------------
(* Arithmetic *)

\* b ** e
Power[b \in Int, e \in Nat] == IF e = 0 THEN 1 ELSE b * Power[b, e - 1]

Pow(b, e) == Power[b, e]

RootFrom[r \in Nat, s \in Nat, e \in Nat] ==
    IF Power[r + 1, e] > s THEN r ELSE RootFrom[r + 1, s, e]

\* the exact integer n-th root: r^n <= s < (r+1)^n
IRoot(s, e) == RootFrom[0, s, e]

IsPerfectPower(s, e) == Pow(IRoot(s, e), e) = s

Abs(a) == IF a < 0 THEN 0 - a ELSE a

Min(a, b) == IF a <= b THEN a ELSE b

GCD[a \in Nat, b \in Nat] == IF b = 0 THEN a ELSE GCD[b, a % b]

\* num / den, den > 0
Quotient(num, den) ==
    LET g == GCD[Abs(num), den] IN <<num \div g, den \div g>>

\* a/b < c/d for b, d > 0, by continued fractions (no products are formed)
FracLess[a \in Int, b \in Nat, c \in Int, d \in Nat] ==
    IF a \div b # c \div d THEN a \div b < c \div d
    ELSE IF c % d = 0 THEN FALSE
    ELSE IF a % b = 0 THEN TRUE
    ELSE FracLess[d, c % d, b, a % b]

LessFrac(p, q) == FracLess[p[1], p[2], q[1], q[2]]

\* a < b on floats, float('inf') included
LessFloat(a, b) ==
    IF a = Inf THEN FALSE
    ELSE IF b = Inf THEN TRUE
    ELSE LessFrac(a, b)

---------------------------------------------------------------------------
(* calculate_z_value *)

\* z = int(sum_value ** (1/n)), e the rounding error of this evaluation
RootEstimate(sum_value, exp, e) == IRoot(sum_value, exp) + e

calculate_z_value(sum_value, exp, e) ==
    LET z == RootEstimate(sum_value, exp, e)
    IN  IF Pow(z, exp) >= sum_value THEN z - 1 ELSE z

(* calculate_miss: <<absolute miss, relative miss, is_lower_z>> *)

calculate_miss(cx, cy, z, exp) ==
    LET sum_value == Pow(cx, exp) + Pow(cy, exp)
        lower_miss == sum_value - Pow(z, exp)
        upper_miss == Pow(z + 1, exp) - sum_value
    IN  IF lower_miss <= upper_miss
        THEN <<lower_miss, Quotient(lower_miss, sum_value), TRUE>>
        ELSE <<upper_miss, Quotient(upper_miss, sum_value), FALSE>>

---------------------------------------------------------------------------
(* find_near_misses *)

\* the comparison of line 116 written with > (does not detect a smaller miss)
IsNewBestReversed(rel_miss, best) == LessFloat(best, rel_miss)

\* the comparison of line 116 written with <= (a tie replaces the record)
IsNewBestOrEqual(rel_miss, best) == ~LessFloat(best, rel_miss)

\* rel_miss < best_relative_miss
IsNewBest(rel_miss, best) == LessFloat(rel_miss, best)

\* the range of lines 102-103 written range(10, k) (the limit k is left out)
LoopRangeExclusive(limit) == MinXY..(limit - 1)

\* range(10, k + 1)
LoopRange(limit) == MinXY..limit

\* the pair after (cx, cy) in the nested loops; cx = limit + 1 when exhausted
NextPair(cx, cy, limit) ==
    IF cy + 1 \in LoopRange(limit) THEN <<cx, cy + 1>> ELSE <<cx + 1, MinXY>>

Init ==
    /\ pc = "NotStarted"
    /\ n \in MinN..MaxN
    /\ k \in MinXY..MaxK
    /\ x = MinXY
    /\ y = MinXY
    /\ combinations_checked = 0
    /\ best_relative_miss = Inf
    /\ best_result = None
    /\ printed = <<>>
    /\ history = <<>>
    /\ inexact = 0
    /\ call = None
    /\ ret = None

\* lines 88-99: the initial assignments and the banner
Start ==
    /\ pc = "NotStarted"
    /\ pc' = "Running"
    /\ best_relative_miss' = Inf
    /\ best_result' = None
    /\ combinations_checked' = 0
    /\ x' = MinXY
    /\ y' = MinXY
    /\ UNCHANGED <<n, k, printed, history, inexact, call, ret>>

\* lines 102-136: one iteration of the loop body, for the pair (x, y); the
\* three values of lines 107-113 are bound once each
\* (the progress block of lines 131-136 prints every 10000th candidate and
\* assigns nothing the search reads; `printed` holds the new-best blocks)
Step(e) ==
    /\ pc = "Running"
    /\ x \in LoopRange(k)
    /\ y \in LoopRange(k)
    /\ e # 0 => inexact < MaxInexact
    /\ \E sum_value \in {Pow(x, n) + Pow(y, n)} :
       \E z \in {calculate_z_value(sum_value, n, e)} :
       \E miss \in {calculate_miss(x, y, z, n)} :
           LET abs_miss == miss[1]
               rel_miss == miss[2]
               is_lower_z == miss[3]
               best_z == IF is_lower_z THEN z ELSE z + 1
               nxt == NextPair(x, y, k)
           IN  /\ combinations_checked' = combinations_checked + 1
               /\ IF IsNewBest(rel_miss, best_relative_miss)
                  THEN /\ best_relative_miss' = rel_miss
                       /\ best_result' = <<x, y, best_z, abs_miss, rel_miss>>
                       /\ printed' = Append(printed,
                              [x |-> x, y |-> y, z |-> best_z,
                               sign |-> IF is_lower_z THEN "<" ELSE ">",
                               abs_miss |-> abs_miss, rel_miss |-> rel_miss,
                               progress |-> combinations_checked + 1])
                  ELSE UNCHANGED <<best_relative_miss, best_result, printed>>
               /\ history' = Append(history,
                      [x |-> x, y |-> y, sum |-> sum_value,
                       est |-> RootEstimate(sum_value, n, e), z |-> z,
                       abs_miss |-> abs_miss, rel_miss |-> rel_miss,
                       is_lower_z |-> is_lower_z, outcome |-> "returned"])
               /\ x' = nxt[1]
               /\ y' = nxt[2]
    /\ inexact' = IF e # 0 THEN inexact + 1 ELSE inexact
    /\ UNCHANGED <<pc, n, k, call, ret>>

\* lines 138-157: the loops are exhausted; the final report
Finish ==
    /\ pc = "Running"
    /\ x \notin LoopRange(k)
    /\ pc' = "Complete"
    /\ UNCHANGED <<n, k, x, y, combinations_checked, best_relative_miss,
                   best_result, printed, history, inexact, call, ret>>

Next ==
    \/ Start
    \/ \E e \in EstErr : Step(e)
    \/ Finish

Spec == Init /\ [][Next]_vars

\* the loop is synchronous: a step that can be taken is taken
FairSpec == Spec /\ WF_vars(Next)

---------------------------------------------------------------------------
(* calculate_z_value called directly, on sums r^n + d around exact powers *)

BracketInputs ==
    {<<Pow(r, e) + d, e, err>> :
        r \in MinRoot..MaxRoot, e \in MinN..MaxN, d \in 0..MaxOffset,
        err \in EstErr}

BracketInit ==
    /\ call \in BracketInputs
    /\ ret = None
    /\ pc = "NotStarted"
    /\ n = call[2]
    /\ k = MinXY
    /\ x = MinXY
    /\ y = MinXY
    /\ combinations_checked = 0
    /\ best_relative_miss = Inf
    /\ best_result = None
    /\ printed = <<>>
    /\ history = <<>>
    /\ inexact = 0

BracketCall ==
    /\ call # None
    /\ ret = None
    /\ ret' = <<calculate_z_value(call[1], call[2], call[3])>>
    /\ UNCHANGED <<pc, n, k, x, y, combinations_checked, best_relative_miss,
                   best_result, printed, history, inexact, call>>

BracketSpec == BracketInit /\ [][BracketCall]_vars

---------------------------------------------------------------------------
(* Properties *)

Evaluated == {history[i] : i \in DOMAIN history}

LowerMiss(h) == h.sum - Pow(h.z, n)
UpperMiss(h) == Pow(h.z + 1, n) - h.sum

\* the grid of find_near_misses(n, k), written out independently of the loop
Grid == {<<a, b>> : a \in 10..k, b \in 10..k}

\* C1: every z returned by calculate_z_value for a sum x^n + y^n of the
\* search satisfies z^n < sum.
C1_LowerBound == \A h \in Evaluated : Pow(h.z, n) < h.sum

\* C2: for every sum x^n + y^n of the search that is not an exact n-th
\* power, the z returned by calculate_z_value satisfies (z+1)^n > sum, on
\* whichever side of the root the truncated estimate fell.
C2_UpperBound ==
    \A h \in Evaluated :
        ~IsPerfectPower(h.sum, n) => Pow(h.z + 1, n) > h.sum

\* C3: with z the bracketer's value, calculate_miss returns
\* min(sum - z^n, (z+1)^n - sum), and that value is >= 0 and < sum.
C3_MissRange ==
    \A h \in Evaluated :
        /\ h.abs_miss = Min(LowerMiss(h), UpperMiss(h))
        /\ h.abs_miss >= 0
        /\ h.abs_miss < h.sum

\* C4: at every point of the search the best relative miss is <= the
\* relative miss of every candidate processed so far and is the relative
\* miss of one of them.
C4_BestIsMinimum ==
    IF history = <<>>
    THEN best_relative_miss = Inf
    ELSE /\ \A h \in Evaluated : ~LessFloat(h.rel_miss, best_relative_miss)
         /\ \E h \in Evaluated : h.rel_miss = best_relative_miss

C4_Witness ==
    /\ pc = "Complete"
    /\ Len(history) > 1
    /\ \E h \in Evaluated : LessFloat(best_relative_miss, h.rel_miss)
    /\ Len(printed) > 1

RecordOf(h) ==
    <<h.x, h.y, IF h.is_lower_z THEN h.z ELSE h.z + 1, h.abs_miss, h.rel_miss>>

\* the first candidate, in processing order, that attains the minimum
FirstMinimum ==
    CHOOSE i \in DOMAIN history :
        /\ \A j \in DOMAIN history :
               ~LessFloat(history[j].rel_miss, history[i].rel_miss)
        /\ \A j \in 1..(i - 1) :
               LessFloat(history[i].rel_miss, history[j].rel_miss)

\* C6: processing a candidate replaces the best record if and only if its
\* relative miss is strictly less than the current best; otherwise the
\* record is unchanged; the final record is the first candidate in
\* x-major, y-minor order that attains the minimum.
C6_StrictImprovement ==
    /\ [][history' # history =>
            LET h == history'[Len(history')]
            IN  IF LessFloat(h.rel_miss, best_relative_miss)
                THEN /\ best_result' = RecordOf(h)
                     /\ best_relative_miss' = h.rel_miss
                ELSE /\ best_result' = best_result
                     /\ best_relative_miss' = best_relative_miss]_vars
    /\ [](pc = "Complete" =>
             /\ best_result = RecordOf(history[FirstMinimum])
             /\ \A i, j \in DOMAIN history :
                    i < j => \/ history[i].x < history[j].x
                             \/ /\ history[i].x = history[j].x
                                /\ history[i].y < history[j].y)

C6_Witness ==
    /\ pc = "Complete"
    /\ \E i, j \in DOMAIN history :
           /\ i < j
           /\ history[i].rel_miss = best_relative_miss
           /\ history[j].rel_miss = best_relative_miss
           /\ best_result = RecordOf(history[i])
           /\ best_result # RecordOf(history[j])

\* C7: a candidate whose lower or upper miss is negative is aborted with an
\* error outcome; no negative absolute or relative miss is returned by
\* calculate_miss or stored in the best record.
C7_NegativeMissAborts ==
    /\ \A h \in Evaluated :
           /\ (LowerMiss(h) < 0 \/ UpperMiss(h) < 0) => h.outcome = "aborted"
           /\ h.outcome = "returned" => (h.abs_miss >= 0 /\ h.rel_miss[1] >= 0)
    /\ best_result # None => (best_result[4] >= 0 /\ best_result[5][1] >= 0)

\* C8: the correction step decrements z from the truncated estimate until
\* z^n < sum holds, so the returned z is the largest value not above the
\* estimate with z^n < sum, also when the estimate exceeds the root by more
\* than one.
C8_CorrectionIterates ==
    \A h \in Evaluated :
        Pow(h.est, n) >= h.sum =>
            /\ Pow(h.z, n) < h.sum
            /\ Pow(h.z + 1, n) >= h.sum

\* C9: when sum = r^n exactly, calculate_z_value returns a z strictly
\* below r and never r itself.
C9_BelowExactRoot ==
    (ret # None /\ IsPerfectPower(call[1], call[2]))
        => ret[1] < IRoot(call[1], call[2])

\* C10: every new-best notification shows '<' only when x^n + y^n is below
\* the recorded z^n and '>' only when it is above.
C10_DirectionAgrees ==
    \A i \in DOMAIN printed :
        LET p == printed[i]
            s == Pow(p.x, n) + Pow(p.y, n)
            zn == Pow(p.z, n)
        IN  /\ p.sign = "<" => s < zn
            /\ p.sign = ">" => s > zn

====
